---- MODULE Spec2Model ----
(***************************************************************************)
(* Model of wasm-crypto/src/lib.rs: the wasm-bindgen wrappers FpElement,   *)
(* Fp2Element, G1Point, G2Point and pairing over the blst primitives.      *)
(*                                                                         *)
(* The wrappers are pure functions; the state is what a caller holds: a    *)
(* few registers of wrapper values and the record of the last call (its    *)
(* operation, its arguments and what it returned).                         *)
(*                                                                         *)
(* The 381-bit base field is scaled to a small prime with the same shape   *)
(* (p = 3 mod 4, p = 1 mod 3, curve y^2 = x^3 + 4), and blst's internal    *)
(* Montgomery representation is kept: an blst_fp holds a*R mod p with      *)
(* R = 2^384.  Byte and hex widths are the source's (48 and 32 bytes).     *)
(***************************************************************************)
EXTENDS Integers, Sequences, FiniteSets, TLC

VARIABLES fpr, fp2r, g1r, g2r, last

vars == <<fpr, fp2r, g1r, g2r, last>>

(***************************************************************************)
(* Sizes                                                                   *)
(***************************************************************************)
\* Scaled stand-in for the BLS12-381 base prime held by blst_fp.
FpModulus == 19

\* bytes.len() != 48 in FpElement::new; [0u8; 48] everywhere else.
FP_BYTES == 48

\* bytes.len() != 32 in scalar_mul; [0u8; 32] in random.
SCALAR_BYTES == 32

\* Number of trailing hex characters of an input that vary.
TailLen == 1

\* Caller's registers per type.
Regs == {1, 2}

\* A register that holds no value yet.
None == [none |-> TRUE]

(***************************************************************************)
(* Input families                                                          *)
(***************************************************************************)
\* Characters hex inputs are built from: digits, an upper-case hex letter and
\* one character that is no hex digit.
HexAlphabet == {"0", "2", "F", "g"}

\* Leading character of an input.
HexHeads == {"0", "2"}

\* How far the length of an input is from the 2*n characters of n bytes.
LenDeltas == {0 - 2, 0 - 1, 0, 2}

\* n copies of x (none when n <= 0).
Repeat(x, n) == [i \in 1..n |-> x]

RECURSIVE SeqsOfLen(_, _)
SeqsOfLen(S, n) ==
    IF n = 0 THEN {<<>>}
    ELSE {<<x>> \o t : x \in S, t \in SeqsOfLen(S, n - 1)}

\* Hex strings around the length of n bytes: head, zero padding, varying tail.
HexInputs(n) ==
    {<<>>} \cup
    {<<h>> \o Repeat("0", 2 * n + d - 1 - TailLen) \o t :
        h \in HexHeads, d \in LenDeltas, t \in SeqsOfLen(HexAlphabet, TailLen)}

FpHexInputs == HexInputs(FP_BYTES)

ScalarHexInputs == HexInputs(SCALAR_BYTES)

(***************************************************************************)
(* hex crate                                                               *)
(***************************************************************************)
HexLower == <<"0","1","2","3","4","5","6","7","8","9","a","b","c","d","e","f">>
HexUpper == <<"0","1","2","3","4","5","6","7","8","9","A","B","C","D","E","F">>

HexChars == {HexLower[i] : i \in 1..16} \cup {HexUpper[i] : i \in 1..16}

IsHexChar(c) == c \in HexChars

HexValOf ==
    [c \in HexChars |-> (CHOOSE i \in 1..16 : HexLower[i] = c \/ HexUpper[i] = c) - 1]

HexVal(c) == HexValOf[c]

\* One byte per pair of digits, the first digit the high nibble.
HexPairs(s) ==
    [i \in 1..(Len(s) \div 2) |-> 16 * HexVal(s[2 * i - 1]) + HexVal(s[2 * i])]

\* hex::decode: OddLength first, then InvalidHexCharacter, else the bytes.
hex_decode(s) ==
    IF Len(s) % 2 # 0 THEN [ok |-> FALSE, err |-> "Odd number of digits"]
    ELSE IF \E i \in 1..Len(s) : ~IsHexChar(s[i])
         THEN [ok |-> FALSE, err |-> "Invalid character"]
         ELSE [ok |-> TRUE, val |-> HexPairs(s)]

hex_encode(bytes) ==
    [i \in 1..(2 * Len(bytes)) |->
        IF i % 2 = 1 THEN HexLower[(bytes[(i + 1) \div 2] \div 16) + 1]
        ELSE HexLower[(bytes[i \div 2] % 16) + 1]]

\* What getrandom can fill an n-byte buffer with (within the input family).
RandomBytes(n) ==
    {hex_decode(s).val : s \in {x \in HexInputs(n) : Len(x) = 2 * n /\ hex_decode(x).ok}}

FpRandomBytes == RandomBytes(FP_BYTES)

ScalarRandomBytes == RandomBytes(SCALAR_BYTES)

(***************************************************************************)
(* blst: base field, Montgomery form                                       *)
(***************************************************************************)
RECURSIVE Pow256Mod(_)
\* 256^k mod p, by squaring.
Pow256Mod(k) ==
    IF k = 0 THEN 1 % FpModulus
    ELSE LET h == Pow256Mod(k \div 2)
             hh == (h * h) % FpModulus
         IN IF k % 2 = 0 THEN hh ELSE (hh * 256) % FpModulus

RECURSIVE BendianModRange(_, _, _)
\* The big-endian integer of bytes[lo..hi], reduced mod p, by halves.
BendianModRange(bytes, lo, hi) ==
    IF lo > hi THEN 0
    ELSE IF lo = hi THEN bytes[lo] % FpModulus
    ELSE LET mid == (lo + hi) \div 2
         IN (BendianModRange(bytes, lo, mid) * Pow256Mod(hi - mid)
             + BendianModRange(bytes, mid + 1, hi)) % FpModulus

\* The big-endian integer of a byte string, reduced mod p.
BendianMod(bytes) == BendianModRange(bytes, 1, Len(bytes))

\* R = 2^384 mod p: 256^48.
MontR == Pow256Mod(FP_BYTES)

MontRinv == CHOOSE x \in 0..(FpModulus - 1) : (x * MontR) % FpModulus = 1

\* blst_fp::default(): all limbs zero.
blst_fp_default == 0

\* The Montgomery form of one.
MontOne == MontR % FpModulus

\* A conversion to Montgomery form that leaves out the final reduction.
blst_fp_from_bendian_unreduced(bytes) == BendianMod(bytes) * MontR

\* Any 48-byte value comes out reduced: the conversion to Montgomery form is a
\* modular multiplication.
blst_fp_from_bendian(bytes) == (BendianMod(bytes) * MontR) % FpModulus

\* Byte e (from the least significant, 0) of n; n is below 256^4 here.
ByteOf(n, e) == IF e > 3 THEN 0 ELSE (n \div (256 ^ e)) % 256

\* n as len big-endian bytes.
ToBendian(n, len) == [i \in 1..len |-> ByteOf(n, len - i)]

blst_bendian_from_fp(v) == ToBendian((v * MontRinv) % FpModulus, FP_BYTES)

blst_fp_add(a, b) == (a + b) % FpModulus

blst_fp_sub(a, b) == (a - b + FpModulus) % FpModulus

blst_fp_mul(a, b) == (a * b * MontRinv) % FpModulus

blst_fp_inverse(a) ==
    IF a = 0 THEN 0
    ELSE CHOOSE r \in 0..(FpModulus - 1) : blst_fp_mul(a, r) = MontOne

(***************************************************************************)
(* FpElement { value: blst_fp }                                            *)
(***************************************************************************)
FpElement(v) == [value |-> v]

\* Every FpElement there is.
FpElements == {FpElement(v) : v \in 0..(FpModulus - 1)}

Ok(v) == [ok |-> TRUE, val |-> v]

\* Err(JsValue::from_str(msg))
Err(msg) == [ok |-> FALSE, err |-> msg]

\* FpElement::new without its length check.
FpElement_new_nolen(hex_string) ==
    LET bytes == hex_decode(hex_string) IN
    IF ~bytes.ok THEN Err("Invalid hex string")
    ELSE Ok(FpElement(blst_fp_from_bendian(bytes.val)))

FpElement_new(hex_string) ==
    LET bytes == hex_decode(hex_string) IN
    IF ~bytes.ok THEN Err("Invalid hex string")
    ELSE IF Len(bytes.val) # FP_BYTES
         THEN Err("Field element must be 48 bytes")
         ELSE Ok(FpElement(blst_fp_from_bendian(bytes.val)))

FpElement_random(bytes) == FpElement(blst_fp_from_bendian(bytes))

FpElement_add(self, other) == FpElement(blst_fp_add(self.value, other.value))

FpElement_mul(self, other) == FpElement(blst_fp_mul(self.value, other.value))

\* is_zero with any() where the source has all().
FpElement_is_zero_any(self) ==
    LET bytes == blst_bendian_from_fp(self.value) IN
    \E i \in 1..Len(bytes) : bytes[i] = 0

FpElement_is_zero(self) ==
    LET bytes == blst_bendian_from_fp(self.value) IN
    \A i \in 1..Len(bytes) : bytes[i] = 0

FpElement_inverse(self) ==
    LET result == blst_fp_inverse(self.value) IN
    IF FpElement_is_zero(self)
    THEN Err("Cannot invert zero element")
    ELSE Ok(FpElement(result))

FpElement_to_hex(self) == hex_encode(blst_bendian_from_fp(self.value))

(***************************************************************************)
(* blst: quadratic extension, u^2 = -1                                     *)
(***************************************************************************)
\* blst_fp2::default()
blst_fp2_default == <<blst_fp_default, blst_fp_default>>

blst_fp2_add(a, b) == <<blst_fp_add(a[1], b[1]), blst_fp_add(a[2], b[2])>>

blst_fp2_sub(a, b) == <<blst_fp_sub(a[1], b[1]), blst_fp_sub(a[2], b[2])>>

blst_fp2_mul(a, b) ==
    <<blst_fp_sub(blst_fp_mul(a[1], b[1]), blst_fp_mul(a[2], b[2])),
      blst_fp_add(blst_fp_mul(a[1], b[2]), blst_fp_mul(a[2], b[1]))>>

\* 1/(a0 + a1 u) = (a0 - a1 u)/(a0^2 + a1^2); zero goes to zero.
blst_fp2_inverse(a) ==
    LET n == blst_fp_inverse(blst_fp_add(blst_fp_mul(a[1], a[1]),
                                         blst_fp_mul(a[2], a[2])))
    IN <<blst_fp_mul(a[1], n), blst_fp_mul(blst_fp_sub(0, a[2]), n)>>

Fp2MontOne == <<MontOne, blst_fp_default>>

(***************************************************************************)
(* Fp2Element { value: blst_fp2 }                                          *)
(***************************************************************************)
Fp2Element(v) == [value |-> v]

Fp2Element_new(c0, c1) ==
    Fp2Element(<<blst_fp_add(c0.value, c0.value), blst_fp_add(c1.value, c1.value)>>)

Fp2Element_add(self, other) == Fp2Element(blst_fp2_add(self.value, other.value))

Fp2Element_mul(self, other) == Fp2Element(blst_fp2_mul(self.value, other.value))

Fp2Element_c0(self) == FpElement(self.value[1])

Fp2Element_c1(self) == FpElement(self.value[2])

(***************************************************************************)
(* blst: Jacobian points <<X, Y, Z>>, infinity encoded as Z = 0.  The same *)
(* formulas serve E1 (over Fp, fd = 1) and E2 (over Fp2, fd = 2).          *)
(***************************************************************************)
\* The arithmetic of the field of degree fd.
FieldZero(fd) == IF fd = 1 THEN blst_fp_default ELSE blst_fp2_default

FieldOne(fd) == IF fd = 1 THEN MontOne ELSE Fp2MontOne

FieldAdd(fd, a, b) == IF fd = 1 THEN blst_fp_add(a, b) ELSE blst_fp2_add(a, b)

FieldSub(fd, a, b) == IF fd = 1 THEN blst_fp_sub(a, b) ELSE blst_fp2_sub(a, b)

FieldMul(fd, a, b) == IF fd = 1 THEN blst_fp_mul(a, b) ELSE blst_fp2_mul(a, b)

FieldInv(fd, a) == IF fd = 1 THEN blst_fp_inverse(a) ELSE blst_fp2_inverse(a)

FieldDbl(fd, a) == FieldAdd(fd, a, a)

FieldSqr(fd, a) == FieldMul(fd, a, a)

\* dbl-2009-l, a = 0.
JacDouble(fd, p) ==
    LET a == FieldSqr(fd, p[1])
        b == FieldSqr(fd, p[2])
        c == FieldSqr(fd, b)
        d == FieldDbl(fd, FieldSub(fd, FieldSub(fd, FieldSqr(fd, FieldAdd(fd, p[1], b)), a), c))
        e == FieldAdd(fd, FieldDbl(fd, a), a)
        X3 == FieldSub(fd, FieldSqr(fd, e), FieldDbl(fd, d))
        Y3 == FieldSub(fd, FieldMul(fd, e, FieldSub(fd, d, X3)),
                       FieldDbl(fd, FieldDbl(fd, FieldDbl(fd, c))))
    IN <<X3, Y3, FieldDbl(fd, FieldMul(fd, p[2], p[3]))>>

\* add-2007-bl with either input at infinity; no handling of doubling.
JacAdd(fd, p1, p2) ==
    LET p1inf == p1[3] = FieldZero(fd)
        p2inf == p2[3] = FieldZero(fd)
        Z1Z1 == FieldSqr(fd, p1[3])
        Z2Z2 == FieldSqr(fd, p2[3])
        S2 == FieldMul(fd, FieldMul(fd, Z1Z1, p1[3]), p2[2])
        S1 == FieldMul(fd, FieldMul(fd, Z2Z2, p2[3]), p1[2])
        r == FieldDbl(fd, FieldSub(fd, S2, S1))
        U1 == FieldMul(fd, p1[1], Z2Z2)
        H == FieldSub(fd, FieldMul(fd, p2[1], Z1Z1), U1)
        I == FieldSqr(fd, FieldDbl(fd, H))
        J == FieldMul(fd, H, I)
        V == FieldMul(fd, U1, I)
        X3 == FieldSub(fd, FieldSub(fd, FieldSqr(fd, r), J), FieldDbl(fd, V))
        Y3 == FieldSub(fd, FieldMul(fd, FieldSub(fd, V, X3), r),
                       FieldDbl(fd, FieldMul(fd, S1, J)))
        Z3 == FieldMul(fd, FieldSub(fd, FieldSub(fd, FieldSqr(fd, FieldAdd(fd, p1[3], p2[3])),
                                                 Z1Z1), Z2Z2), H)
    IN IF p1inf THEN p2 ELSE IF p2inf THEN p1 ELSE <<X3, Y3, Z3>>

\* Addition that also handles doubling (used inside scalar multiplication).
JacDadd(fd, p1, p2) ==
    IF p1[3] = FieldZero(fd) THEN p2
    ELSE IF p2[3] = FieldZero(fd) THEN p1
    ELSE LET Z1Z1 == FieldSqr(fd, p1[3])
             Z2Z2 == FieldSqr(fd, p2[3])
             U1 == FieldMul(fd, p1[1], Z2Z2)
             U2 == FieldMul(fd, p2[1], Z1Z1)
             S1 == FieldMul(fd, FieldMul(fd, Z2Z2, p2[3]), p1[2])
             S2 == FieldMul(fd, FieldMul(fd, Z1Z1, p1[3]), p2[2])
         IN IF U1 = U2 /\ S1 = S2 THEN JacDouble(fd, p1)
            ELSE JacAdd(fd, p1, p2)

RECURSIVE JacTimes2k(_, _, _)
\* 2^k * p.  (Each intermediate point is bound once, as the element of a
\* one-element set.)
JacTimes2k(fd, p, k) ==
    IF k = 0 THEN p
    ELSE CHOOSE r \in {JacTimes2k(fd, q, k - 1) : q \in {JacDouble(fd, p)}} : TRUE

RECURSIVE JacSmallMul(_, _, _)
\* b * p for one byte b
JacSmallMul(fd, p, b) ==
    IF b = 0 THEN <<FieldZero(fd), FieldZero(fd), FieldZero(fd)>>
    ELSE CHOOSE r \in {IF b % 2 = 0 THEN h ELSE JacDadd(fd, h, p) :
                       h \in {JacDouble(fd, q) : q \in {JacSmallMul(fd, p, b \div 2)}}} : TRUE

\* The byte of weight 256^e of a scalar as blst reads it: little-endian,
\* scalar[0] (here scalar[1]) the least significant.
blst_scalar_byte(scalar, e) == scalar[e + 1]

RECURSIVE JacMultFrom(_, _, _, _)
\* (the bytes of weight 256^e and above, as an integer) * p
JacMultFrom(fd, p, scalar, e) ==
    IF e >= Len(scalar) THEN <<FieldZero(fd), FieldZero(fd), FieldZero(fd)>>
    ELSE CHOOSE r \in {JacDadd(fd, low, high) :
                       low \in {JacSmallMul(fd, p, blst_scalar_byte(scalar, e))},
                       high \in {JacTimes2k(fd, rest, 8) :
                                 rest \in {JacMultFrom(fd, p, scalar, e + 1)}}} : TRUE

\* blst_p1_mult / blst_p2_mult over all bits of the scalar: the scalar is
\* read as blst reads it, scalar[0] the least significant byte.  The result
\* is k*p; which of the encodings of infinity (Z = 0) blst leaves is not
\* modelled: k * infinity is the all-zero point.
JacMult(fd, p, scalar) ==
    IF p[3] = FieldZero(fd) THEN <<FieldZero(fd), FieldZero(fd), FieldZero(fd)>>
    ELSE JacMultFrom(fd, p, scalar, 0)

\* to_affine: <<x, y>> = <<X/Z^2, Y/Z^3>>; Z = 1 is copied; the reciprocal of
\* zero is zero, so infinity comes out as <<0, 0>>.
JacToAffine(fd, p) ==
    IF p[3] = FieldOne(fd) THEN <<p[1], p[2]>>
    ELSE \* Z is bound once
         CHOOSE r \in {<<FieldMul(fd, p[1], FieldSqr(fd, Z)),
                         FieldMul(fd, p[2], FieldMul(fd, FieldSqr(fd, Z), Z))>> :
                       Z \in {FieldInv(fd, p[3])}} : TRUE

\* blst_p1::default(), blst_p2::default(): all limbs zero.
blst_p1_default == <<blst_fp_default, blst_fp_default, blst_fp_default>>

blst_p2_default == <<blst_fp2_default, blst_fp2_default, blst_fp2_default>>

blst_p1_add(a, b) == JacAdd(1, a, b)

blst_p2_add(a, b) == JacAdd(2, a, b)

blst_p1_mult(p, scalar) == JacMult(1, p, scalar)

blst_p2_mult(p, scalar) == JacMult(2, p, scalar)

blst_p1_to_affine(p) == JacToAffine(1, p)

blst_p2_to_affine(p) == JacToAffine(2, p)

(***************************************************************************)
(* G1Point { point: blst_p1 }                                              *)
(***************************************************************************)
G1Point(pt) == [point |-> pt]

AllZero(bytes) == \A i \in 1..Len(bytes) : bytes[i] = 0

\* The generator of the prime-order subgroup of the scaled curve, affine
\* (1, 9), as a Jacobian point in Montgomery form.
BLS12_381_G1 == <<(1 * MontR) % FpModulus, (9 * MontR) % FpModulus, MontOne>>

\* identity() built from the generator instead of the default point.
G1Point_identity_gen ==
    LET point == BLS12_381_G1 IN G1Point(blst_p1_add(point, blst_p1_default))

G1Point_identity ==
    LET point == blst_p1_default IN G1Point(blst_p1_add(point, blst_p1_default))

\* random() multiplying the curve's generator.
G1Point_generator_bls == BLS12_381_G1

\* let generator = blst_p1::default();
G1Point_generator == blst_p1_default

G1Point_random(scalar_bytes) == G1Point(blst_p1_mult(G1Point_generator, scalar_bytes))

G1Point_add(self, other) == G1Point(blst_p1_add(self.point, other.point))

\* scalar_mul rejecting only scalars that are too long.
G1Point_scalar_mul_short(self, scalar) ==
    LET bytes == hex_decode(scalar) IN
    IF ~bytes.ok THEN Err("Invalid scalar hex")
    ELSE IF Len(bytes.val) > SCALAR_BYTES
         THEN Err("Scalar must be 32 bytes")
         ELSE Ok(G1Point(blst_p1_mult(self.point, bytes.val)))

G1Point_scalar_mul(self, scalar) ==
    LET bytes == hex_decode(scalar) IN
    IF ~bytes.ok THEN Err("Invalid scalar hex")
    ELSE IF Len(bytes.val) # SCALAR_BYTES
         THEN Err("Scalar must be 32 bytes")
         ELSE Ok(G1Point(blst_p1_mult(self.point, bytes.val)))

G1Point_is_infinity(self) ==
    LET point == blst_p1_to_affine(self.point)
        x_bytes == blst_bendian_from_fp(point[1])
    IN AllZero(x_bytes)

G1Point_get_coordinates(self) ==
    LET point == blst_p1_to_affine(self.point) IN
    [x |-> hex_encode(blst_bendian_from_fp(point[1])),
     y |-> hex_encode(blst_bendian_from_fp(point[2])),
     infinity |-> G1Point_is_infinity(self)]

(***************************************************************************)
(* G2Point { point: blst_p2 }                                              *)
(***************************************************************************)
G2Point(pt) == [point |-> pt]

\* identity() returning a finite point whose affine x is (0, 1): first
\* component zero, second not.
G2Point_identity_c1 ==
    G2Point(<<<<blst_fp_default, MontOne>>, <<MontOne, blst_fp_default>>, Fp2MontOne>>)

G2Point_identity ==
    LET point == blst_p2_default IN G2Point(blst_p2_add(point, blst_p2_default))

\* A generator that is a finite point (Z = 1).
G2Point_generator_finite ==
    <<<<MontOne, MontOne>>, <<MontOne, blst_fp_default>>, Fp2MontOne>>

\* let generator = blst_p2::default();
G2Point_generator == blst_p2_default

G2Point_random(scalar_bytes) == G2Point(blst_p2_mult(G2Point_generator, scalar_bytes))

G2Point_add(self, other) == G2Point(blst_p2_add(self.point, other.point))

G2Point_scalar_mul(self, scalar) ==
    LET bytes == hex_decode(scalar) IN
    IF ~bytes.ok THEN Err("Invalid scalar hex")
    ELSE IF Len(bytes.val) # SCALAR_BYTES
         THEN Err("Scalar must be 32 bytes")
         ELSE Ok(G2Point(blst_p2_mult(self.point, bytes.val)))

\* Only the first component of x is looked at.
G2Point_is_infinity(self) ==
    LET point == blst_p2_to_affine(self.point)
        x_bytes == blst_bendian_from_fp(point[1][1])
    IN AllZero(x_bytes)

G2Point_get_coordinates(self) ==
    LET point == blst_p2_to_affine(self.point) IN
    [x |-> [c0 |-> hex_encode(blst_bendian_from_fp(point[1][1])),
            c1 |-> hex_encode(blst_bendian_from_fp(point[1][2]))],
     y |-> [c0 |-> hex_encode(blst_bendian_from_fp(point[2][1])),
            c1 |-> hex_encode(blst_bendian_from_fp(point[2][2]))],
     infinity |-> G2Point_is_infinity(self)]

(***************************************************************************)
(* pairing: the Miller loop and the final exponentiation write the local   *)
(* `result`, which is dropped; what is returned is a fixed JSON object.    *)
(***************************************************************************)
pairing(g1, g2) ==
    LET g1_affine == blst_p1_to_affine(g1.point)
        g2_affine == blst_p2_to_affine(g2.point)
    IN [pairing_computed |-> TRUE,
        message |-> "Pairing result computed successfully"]

(***************************************************************************)
(* State                                                                   *)
(***************************************************************************)
Init ==
    /\ fpr = [k \in Regs |-> None]
    /\ fp2r = None
    /\ g1r = [k \in Regs |-> None]
    /\ g2r = [k \in Regs |-> None]
    /\ last = [op |-> "init", args |-> <<>>, ok |-> TRUE, out |-> None]

Call(op, args, ok, out) == [op |-> op, args |-> args, ok |-> ok, out |-> out]

(***************************************************************************)
(* FpElement calls                                                         *)
(***************************************************************************)
\* The calls on the input families, evaluated once.
FpNewOf == [h \in FpHexInputs |-> FpElement_new(h)]

FpRandomOf == [b \in FpRandomBytes |-> FpElement_random(b)]

FpNew(k, hex_string) ==
    LET r == FpNewOf[hex_string] IN
    /\ fpr' = IF r.ok THEN [fpr EXCEPT ![k] = r.val] ELSE fpr
    /\ last' = Call("FpElement.new", <<hex_string>>, r.ok,
                    IF r.ok THEN r.val ELSE r.err)
    /\ UNCHANGED <<fp2r, g1r, g2r>>

FpRandom(k, bytes) ==
    /\ fpr' = [fpr EXCEPT ![k] = FpRandomOf[bytes]]
    /\ last' = Call("FpElement.random", <<bytes>>, TRUE, FpRandomOf[bytes])
    /\ UNCHANGED <<fp2r, g1r, g2r>>

FpAdd(i, j, k) ==
    /\ fpr[i] # None /\ fpr[j] # None
    /\ fpr' = [fpr EXCEPT ![k] = FpElement_add(fpr[i], fpr[j])]
    /\ last' = Call("FpElement.add", <<fpr[i], fpr[j]>>, TRUE,
                    FpElement_add(fpr[i], fpr[j]))
    /\ UNCHANGED <<fp2r, g1r, g2r>>

FpMul(i, j, k) ==
    /\ fpr[i] # None /\ fpr[j] # None
    /\ fpr' = [fpr EXCEPT ![k] = FpElement_mul(fpr[i], fpr[j])]
    /\ last' = Call("FpElement.mul", <<fpr[i], fpr[j]>>, TRUE,
                    FpElement_mul(fpr[i], fpr[j]))
    /\ UNCHANGED <<fp2r, g1r, g2r>>

FpInverse(i, k) ==
    /\ fpr[i] # None
    /\ \E r \in {FpElement_inverse(fpr[i])} :
        /\ fpr' = IF r.ok THEN [fpr EXCEPT ![k] = r.val] ELSE fpr
        /\ last' = Call("FpElement.inverse", <<fpr[i]>>, r.ok,
                        IF r.ok THEN r.val ELSE r.err)
    /\ UNCHANGED <<fp2r, g1r, g2r>>

FpIsZero(i) ==
    /\ fpr[i] # None
    /\ last' = Call("FpElement.is_zero", <<fpr[i]>>, TRUE, FpElement_is_zero(fpr[i]))
    /\ UNCHANGED <<fpr, fp2r, g1r, g2r>>

FpToHex(i) ==
    /\ fpr[i] # None
    /\ last' = Call("FpElement.to_hex", <<fpr[i]>>, TRUE, FpElement_to_hex(fpr[i]))
    /\ UNCHANGED <<fpr, fp2r, g1r, g2r>>

NextFp ==
    \/ \E k \in Regs, h \in FpHexInputs : FpNew(k, h)
    \/ \E k \in Regs, b \in FpRandomBytes : FpRandom(k, b)
    \/ \E i, j, k \in Regs : FpAdd(i, j, k)
    \/ \E i, j, k \in Regs : FpMul(i, j, k)
    \/ \E i, k \in Regs : FpInverse(i, k)
    \/ \E i \in Regs : FpIsZero(i)
    \/ \E i \in Regs : FpToHex(i)

SpecFp == Init /\ [][NextFp]_vars

(***************************************************************************)
(* Fp2Element calls                                                        *)
(***************************************************************************)
\* Components that second operands of add and mul are built from.
Fp2OperandParts == {FpElement(blst_fp_default), FpElement(MontOne)}

Fp2Operands == {Fp2Element_new(a, b) : a, b \in Fp2OperandParts}

Fp2New(c0, c1) ==
    /\ fp2r' = Fp2Element_new(c0, c1)
    /\ last' = Call("Fp2Element.new", <<c0, c1>>, TRUE, Fp2Element_new(c0, c1))
    /\ UNCHANGED <<fpr, g1r, g2r>>

Fp2Add(other) ==
    /\ fp2r # None
    /\ fp2r' = Fp2Element_add(fp2r, other)
    /\ last' = Call("Fp2Element.add", <<fp2r, other>>, TRUE, Fp2Element_add(fp2r, other))
    /\ UNCHANGED <<fpr, g1r, g2r>>

Fp2Mul(other) ==
    /\ fp2r # None
    /\ fp2r' = Fp2Element_mul(fp2r, other)
    /\ last' = Call("Fp2Element.mul", <<fp2r, other>>, TRUE, Fp2Element_mul(fp2r, other))
    /\ UNCHANGED <<fpr, g1r, g2r>>

Fp2C0 ==
    /\ fp2r # None
    /\ last' = Call("Fp2Element.c0", <<fp2r>>, TRUE, Fp2Element_c0(fp2r))
    /\ UNCHANGED <<fpr, fp2r, g1r, g2r>>

Fp2C1 ==
    /\ fp2r # None
    /\ last' = Call("Fp2Element.c1", <<fp2r>>, TRUE, Fp2Element_c1(fp2r))
    /\ UNCHANGED <<fpr, fp2r, g1r, g2r>>

NextFp2 ==
    \/ \E c0, c1 \in FpElements : Fp2New(c0, c1)
    \/ \E o \in Fp2Operands : Fp2Add(o)
    \/ \E o \in Fp2Operands : Fp2Mul(o)
    \/ Fp2C0
    \/ Fp2C1

SpecFp2 == Init /\ [][NextFp2]_vars

(***************************************************************************)
(* G1Point, G2Point and pairing calls                                      *)
(***************************************************************************)
G1RandomOf == [b \in ScalarRandomBytes |-> G1Point_random(b)]

G2RandomOf == [b \in ScalarRandomBytes |-> G2Point_random(b)]

G1Identity(k) ==
    /\ g1r' = [g1r EXCEPT ![k] = G1Point_identity]
    /\ last' = Call("G1Point.identity", <<>>, TRUE, G1Point_identity)
    /\ UNCHANGED <<fpr, fp2r, g2r>>

G1Random(k, scalar_bytes) ==
    /\ g1r' = [g1r EXCEPT ![k] = G1RandomOf[scalar_bytes]]
    /\ last' = Call("G1Point.random", <<scalar_bytes>>, TRUE, G1RandomOf[scalar_bytes])
    /\ UNCHANGED <<fpr, fp2r, g2r>>

G1Add(i, j, k) ==
    /\ g1r[i] # None /\ g1r[j] # None
    /\ g1r' = [g1r EXCEPT ![k] = G1Point_add(g1r[i], g1r[j])]
    /\ last' = Call("G1Point.add", <<g1r[i], g1r[j]>>, TRUE, G1Point_add(g1r[i], g1r[j]))
    /\ UNCHANGED <<fpr, fp2r, g2r>>

G1ScalarMul(i, scalar, k) ==
    /\ g1r[i] # None
    /\ \E r \in {G1Point_scalar_mul(g1r[i], scalar)} :
        /\ g1r' = IF r.ok THEN [g1r EXCEPT ![k] = r.val] ELSE g1r
        /\ last' = Call("G1Point.scalar_mul", <<g1r[i], scalar>>, r.ok,
                        IF r.ok THEN r.val ELSE r.err)
    /\ UNCHANGED <<fpr, fp2r, g2r>>

G1IsInfinity(i) ==
    /\ g1r[i] # None
    /\ last' = Call("G1Point.is_infinity", <<g1r[i]>>, TRUE, G1Point_is_infinity(g1r[i]))
    /\ UNCHANGED <<fpr, fp2r, g1r, g2r>>

G1GetCoordinates(i) ==
    /\ g1r[i] # None
    /\ last' = Call("G1Point.get_coordinates", <<g1r[i]>>, TRUE,
                    G1Point_get_coordinates(g1r[i]))
    /\ UNCHANGED <<fpr, fp2r, g1r, g2r>>

G2Identity(k) ==
    /\ g2r' = [g2r EXCEPT ![k] = G2Point_identity]
    /\ last' = Call("G2Point.identity", <<>>, TRUE, G2Point_identity)
    /\ UNCHANGED <<fpr, fp2r, g1r>>

G2Random(k, scalar_bytes) ==
    /\ g2r' = [g2r EXCEPT ![k] = G2RandomOf[scalar_bytes]]
    /\ last' = Call("G2Point.random", <<scalar_bytes>>, TRUE, G2RandomOf[scalar_bytes])
    /\ UNCHANGED <<fpr, fp2r, g1r>>

G2Add(i, j, k) ==
    /\ g2r[i] # None /\ g2r[j] # None
    /\ g2r' = [g2r EXCEPT ![k] = G2Point_add(g2r[i], g2r[j])]
    /\ last' = Call("G2Point.add", <<g2r[i], g2r[j]>>, TRUE, G2Point_add(g2r[i], g2r[j]))
    /\ UNCHANGED <<fpr, fp2r, g1r>>

G2ScalarMul(i, scalar, k) ==
    /\ g2r[i] # None
    /\ \E r \in {G2Point_scalar_mul(g2r[i], scalar)} :
        /\ g2r' = IF r.ok THEN [g2r EXCEPT ![k] = r.val] ELSE g2r
        /\ last' = Call("G2Point.scalar_mul", <<g2r[i], scalar>>, r.ok,
                        IF r.ok THEN r.val ELSE r.err)
    /\ UNCHANGED <<fpr, fp2r, g1r>>

G2IsInfinity(i) ==
    /\ g2r[i] # None
    /\ last' = Call("G2Point.is_infinity", <<g2r[i]>>, TRUE, G2Point_is_infinity(g2r[i]))
    /\ UNCHANGED <<fpr, fp2r, g1r, g2r>>

G2GetCoordinates(i) ==
    /\ g2r[i] # None
    /\ last' = Call("G2Point.get_coordinates", <<g2r[i]>>, TRUE,
                    G2Point_get_coordinates(g2r[i]))
    /\ UNCHANGED <<fpr, fp2r, g1r, g2r>>

Pairing(i, j) ==
    /\ g1r[i] # None /\ g2r[j] # None
    /\ last' = Call("pairing", <<g1r[i], g2r[j]>>, TRUE, pairing(g1r[i], g2r[j]))
    /\ UNCHANGED <<fpr, fp2r, g1r, g2r>>

NextCurve ==
    \/ \E k \in Regs : G1Identity(k)
    \/ \E k \in Regs, b \in ScalarRandomBytes : G1Random(k, b)
    \/ \E i, j, k \in Regs : G1Add(i, j, k)
    \/ \E i, k \in Regs, h \in ScalarHexInputs : G1ScalarMul(i, h, k)
    \/ \E i \in Regs : G1IsInfinity(i)
    \/ \E i \in Regs : G1GetCoordinates(i)
    \/ \E k \in Regs : G2Identity(k)
    \/ \E k \in Regs, b \in ScalarRandomBytes : G2Random(k, b)
    \/ \E i, j, k \in Regs : G2Add(i, j, k)
    \/ \E i, k \in Regs, h \in ScalarHexInputs : G2ScalarMul(i, h, k)
    \/ \E i \in Regs : G2IsInfinity(i)
    \/ \E i \in Regs : G2GetCoordinates(i)
    \/ \E i, j \in Regs : Pairing(i, j)

SpecCurve == Init /\ [][NextCurve]_vars

(***************************************************************************)
(* HashFunctions::sha256 and CryptoModule::self_test                       *)
(***************************************************************************)
\* hasher.finalize() for the one input the module hashes: the SHA-256
\* digest of b"test data", 32 bytes.
Sha256Digest ==
    [data \in {"test data"} |->
        <<145, 111, 0, 39, 165, 117, 7, 76,
          231, 42, 51, 23, 119, 195, 71, 141,
          101, 19, 247, 134, 165, 145, 189, 137,
          45, 161, 165, 119, 191, 35, 53, 249>>]

HashFunctions_sha256(data) == [hash |-> Sha256Digest[data], algorithm |-> "SHA-256"]

\* a_bytes, b_bytes, p1_bytes, p2_bytes are what getrandom fills in the four
\* calls of random(), looked up in the tables of those calls.  (a, b, p1,
\* p2 are each bound once, as the element of a one-element set.)
CryptoModule_self_test(a_bytes, b_bytes, p1_bytes, p2_bytes) ==
    CHOOSE r \in
        {LET c == FpElement_mul(a, b)
             d == FpElement_add(a, b)
             p3 == G1Point_add(p1, p2)
             hash_result == HashFunctions_sha256("test data")
         IN IF FpElement_is_zero(c) \/ FpElement_is_zero(d)
            THEN Err("Field operations failed")
            ELSE IF G1Point_is_infinity(p3)
            THEN Err("Point operations failed")
            ELSE IF Len(hash_result.hash) = 0
            THEN Err("Hash functions failed")
            ELSE Ok([status |-> "success",
                     message |-> "All cryptographic operations working correctly"]) :
         a \in {FpRandomOf[a_bytes]}, b \in {FpRandomOf[b_bytes]},
         p1 \in {G1RandomOf[p1_bytes]}, p2 \in {G1RandomOf[p2_bytes]}} : TRUE

SelfTest(a_bytes, b_bytes, p1_bytes, p2_bytes) ==
    /\ \E r \in {CryptoModule_self_test(a_bytes, b_bytes, p1_bytes, p2_bytes)} :
        last' = Call("CryptoModule.self_test",
                     <<a_bytes, b_bytes, p1_bytes, p2_bytes>>, r.ok,
                     IF r.ok THEN r.val ELSE r.err)
    /\ UNCHANGED <<fpr, fp2r, g1r, g2r>>

NextSelfTest ==
    \E a_bytes, b_bytes \in FpRandomBytes, p1_bytes, p2_bytes \in ScalarRandomBytes :
        SelfTest(a_bytes, b_bytes, p1_bytes, p2_bytes)

SpecSelfTest == Init /\ [][NextSelfTest]_vars

(***************************************************************************)
(* Notions the properties are stated in                                    *)
(***************************************************************************)
\* The decimal digits and the letters a-f, A-F.
HexDigits ==
    {"0", "1", "2", "3", "4", "5", "6", "7", "8", "9",
     "a", "b", "c", "d", "e", "f", "A", "B", "C", "D", "E", "F"}

\* s is the hex text of exactly n bytes.
IsHexOfBytes(s, n) == Len(s) = 2 * n /\ \A i \in 1..Len(s) : s[i] \in HexDigits

ErrorMessages ==
    {"Invalid hex string", "Field element must be 48 bytes",
     "Cannot invert zero element", "Invalid scalar hex", "Scalar must be 32 bytes"}

\* x is the additive identity of the field: adding it changes nothing.
IsAdditiveIdentity(x) == \A y \in FpElements : FpElement_add(x, y) = y

\* The hex text of the integer k as an n-byte big-endian number.
BigEndianHex(k, n) == hex_encode(ToBendian(k, n))

\* The group identity is the point at infinity, blst's Z = 0.
IsG1Identity(pt) == pt.point[3] = blst_fp_default

IsG2Identity(pt) == pt.point[3] = blst_fp2_default

\* Two points are the same point when a caller reads the same coordinates.
SameG1(a, b) == G1Point_get_coordinates(a) = G1Point_get_coordinates(b)

SameG2(a, b) == G2Point_get_coordinates(a) = G2Point_get_coordinates(b)

\* The target field Fp12 = Fp2[w]/(w^6 - (1 + u)): six Fp2 coefficients.
Fp12Xi == <<MontOne, MontOne>>

Fp12Zero == [k \in 1..6 |-> blst_fp2_default]

Fp12One == [k \in 1..6 |-> IF k = 1 THEN Fp2MontOne ELSE blst_fp2_default]

RECURSIVE Fp12Coef(_, _, _, _)
\* The sum over i..6 of the products that land on w^(k-1).
Fp12Coef(a, b, k, i) ==
    IF i > 6 THEN blst_fp2_default
    ELSE LET j == k - i + 1
             t == IF j >= 1 THEN blst_fp2_mul(a[i], b[j])
                  ELSE blst_fp2_mul(Fp12Xi, blst_fp2_mul(a[i], b[j + 6]))
         IN blst_fp2_add(t, Fp12Coef(a, b, k, i + 1))

Fp12Mul(a, b) == [k \in 1..6 |-> Fp12Coef(a, b, k, 1)]

RECURSIVE Fp12Pow(_, _)
Fp12Pow(a, n) ==
    IF n = 0 THEN Fp12One
    ELSE LET h == Fp12Pow(a, n \div 2)
             hh == Fp12Mul(h, h)
         IN IF n % 2 = 0 THEN hh ELSE Fp12Mul(hh, a)

\* A returned JSON value that carries an element of the target field.
CarriesTarget(v) == "fp12" \in DOMAIN v

IsTargetIdentity(v) == CarriesTarget(v) /\ v.fp12 = Fp12One

\* Scalars the bilinearity law is tried with.
SmallScalars == {1, 2, 3}

\* The order of the generator: the least n > 0 with n * G at infinity.
RECURSIVE G1Multiple(_)
\* n times the generator of the group, by repeated addition.
G1Multiple(n) ==
    IF n = 0 THEN blst_p1_default
    ELSE CHOOSE r \in {JacDadd(1, q, BLS12_381_G1) : q \in {G1Multiple(n - 1)}} : TRUE

G1Order ==
    CHOOSE n \in 1..(2 * FpModulus) :
        /\ G1Multiple(n)[3] = blst_fp_default
        /\ \A m \in 1..(n - 1) : G1Multiple(m)[3] # blst_fp_default

RECURSIVE ScalarModOrder(_, _)
\* The scalar blst multiplies by (bytes of weight 256^e and above), mod the
\* group order.
ScalarModOrder(scalar, e) ==
    IF e >= Len(scalar) THEN 0
    ELSE (blst_scalar_byte(scalar, e) + 256 * ScalarModOrder(scalar, e + 1)) % G1Order

(***************************************************************************)
(* Properties                                                              *)
(***************************************************************************)
\* C1: Fp2Element::new(c0, c1) stores the two components exactly: c0() and
\* c1() of the new element have the canonical encodings of c0 and c1.
C1_Fp2NewStoresComponents ==
    last.op = "Fp2Element.new" =>
        /\ FpElement_to_hex(Fp2Element_c0(last.out)) = FpElement_to_hex(last.args[1])
        /\ FpElement_to_hex(Fp2Element_c1(last.out)) = FpElement_to_hex(last.args[2])

\* C2: what pairing returns is a target-field value that is bilinear: for
\* scalars a, b, pairing(a*P, b*Q) is pairing(P, Q) raised to a*b.
C2_PairingBilinear ==
    last.op = "pairing" =>
        \A a, b \in SmallScalars :
            LET aP == G1Point_scalar_mul(last.args[1], BigEndianHex(a, SCALAR_BYTES)).val
                bQ == G2Point_scalar_mul(last.args[2], BigEndianHex(b, SCALAR_BYTES)).val
                lhs == pairing(aP, bQ)
            IN /\ CarriesTarget(last.out)
               /\ CarriesTarget(lhs)
               /\ lhs.fp12 = Fp12Pow(last.out.fp12, a * b)

\* C3: what pairing returns is the identity of the target field exactly when
\* one of the two points is the group identity.
C3_PairingIdentityLaw ==
    last.op = "pairing" =>
        (IsTargetIdentity(last.out)
            <=> (IsG1Identity(last.args[1]) \/ IsG2Identity(last.args[2])))

\* C4: random() is s*G for a generator G that is not the identity, so the
\* point it returns is not the identity unless s is a multiple of the group
\* order.
C4_RandomIsNotIdentity ==
    /\ last.op = "G1Point.random" =>
        /\ ~IsG1Identity(G1Point(G1Point_generator))
        /\ ScalarModOrder(last.args[1], 0) # 0 => ~G1Point_is_infinity(last.out)
    /\ last.op = "G2Point.random" =>
        /\ ~IsG2Identity(G2Point(G2Point_generator))
        /\ ScalarModOrder(last.args[1], 0) # 0 => ~G2Point_is_infinity(last.out)

C6_AddIdentity ==
    /\ last.op = "G1Point.add" =>
        /\ SameG1(last.args[2], G1Point_identity) => SameG1(last.out, last.args[1])
        /\ SameG1(last.args[1], G1Point_identity) => SameG1(last.out, last.args[2])
    /\ last.op = "G2Point.add" =>
        /\ SameG2(last.args[2], G2Point_identity) => SameG2(last.out, last.args[1])
        /\ SameG2(last.args[1], G2Point_identity) => SameG2(last.out, last.args[2])

C6_Witness ==
    /\ last.op = "G2Point.add"
    /\ SameG2(last.args[1], G2Point_identity)
    /\ SameG2(last.args[2], G2Point_identity)
    /\ G2Point_is_infinity(last.out)

C8_ScalarMulLength ==
    /\ last.op = "G1Point.scalar_mul" =>
        /\ last.ok <=> IsHexOfBytes(last.args[2], SCALAR_BYTES)
        /\ last.ok => "point" \in DOMAIN last.out
        /\ ~last.ok => last.out \in ErrorMessages
    /\ last.op = "G2Point.scalar_mul" =>
        /\ last.ok <=> IsHexOfBytes(last.args[2], SCALAR_BYTES)
        /\ last.ok => "point" \in DOMAIN last.out
        /\ ~last.ok => last.out \in ErrorMessages

C8_Witness ==
    /\ last.op = "G1Point.scalar_mul"
    /\ ~last.ok
    /\ Len(last.args[2]) = 2 * (SCALAR_BYTES - 1)
    /\ \A i \in 1..Len(last.args[2]) : last.args[2][i] \in HexDigits

\* C9: inverse fails exactly on the additive identity; the all-zero 48-byte
\* buffer decodes to an element that is_zero and whose inverse fails; every
\* element that is not is_zero has an inverse.
C9_InverseFailsOnlyOnZero ==
    /\ last.op = "FpElement.inverse" =>
        /\ ~last.ok <=> IsAdditiveIdentity(last.args[1])
        /\ ~FpElement_is_zero(last.args[1]) => last.ok
    /\ (last.op = "FpElement.new" /\ last.args[1] = Repeat("0", 2 * FP_BYTES)) =>
        /\ last.ok
        /\ IsAdditiveIdentity(last.out)
        /\ FpElement_is_zero(last.out)
        /\ ~FpElement_inverse(last.out).ok

C9_Witness ==
    /\ last.op = "FpElement.inverse"
    /\ ~last.ok
    /\ last.out = "Cannot invert zero element"

\* C10: FpElement::new returns an element exactly for the inputs that are the
\* hex of 48 bytes, and an error message for every other input.
C10_FpNewDecoding ==
    last.op = "FpElement.new" =>
        /\ last.ok <=> IsHexOfBytes(last.args[1], FP_BYTES)
        /\ last.ok => last.out \in FpElements
        /\ ~last.ok => last.out \in ErrorMessages

C10_Witness ==
    /\ last.op = "FpElement.new"
    /\ ~last.ok
    /\ Len(last.args[1]) = 2 * FP_BYTES
    /\ \E i \in 1..Len(last.args[1]) : last.args[1][i] \notin HexDigits

\* The canonical encoding of the prime modulus.
ModulusBytes == ToBendian(FpModulus, FP_BYTES)

\* a < b as big-endian unsigned integers of the same length.
BytesBelow(a, b) ==
    \E i \in 1..Len(a) : a[i] < b[i] /\ \A j \in 1..(i - 1) : a[j] = b[j]

\* The limbs hold a value in [0, p) and to_hex encodes an integer below p.
IsReduced(x) ==
    /\ x.value \in 0..(FpModulus - 1)
    /\ BytesBelow(hex_decode(FpElement_to_hex(x)).val, ModulusBytes)

\* C11: every FpElement that new, random, add, mul or inverse returns, and
\* every one held, is reduced into [0, p): its 48-byte big-endian encoding
\* is an integer strictly below the prime, also when new was given the
\* encoding of an integer >= p.
C11_FpAlwaysReduced ==
    /\ \A k \in Regs : fpr[k] # None => IsReduced(fpr[k])
    /\ (/\ last.op \in {"FpElement.new", "FpElement.random", "FpElement.add",
                        "FpElement.mul", "FpElement.inverse"}
        /\ last.ok) => IsReduced(last.out)

\* new has accepted the 48-byte encoding of an integer >= p.
C11_Witness ==
    /\ last.op = "FpElement.new"
    /\ last.ok
    /\ ~BytesBelow(hex_decode(last.args[1]).val, ModulusBytes)
    /\ IsReduced(last.out)

ScalarNotMultiple(scalar) == ScalarModOrder(scalar, 0) # 0

\* The case of C13: the two field elements have non-zero sum and product,
\* the two scalars are non-zero and do not sum to a multiple of the order.
SelfTestShouldPass(a_bytes, b_bytes, p1_bytes, p2_bytes) ==
    LET a == FpElement_random(a_bytes)
        b == FpElement_random(b_bytes)
    IN /\ ~IsAdditiveIdentity(FpElement_add(a, b))
       /\ ~IsAdditiveIdentity(FpElement_mul(a, b))
       /\ ~AllZero(p1_bytes)
       /\ ~AllZero(p2_bytes)
       /\ ScalarNotMultiple(p1_bytes)
       /\ ScalarNotMultiple(p2_bytes)
       /\ (ScalarModOrder(p1_bytes, 0) + ScalarModOrder(p2_bytes, 0)) % G1Order # 0

\* C13: self_test returns the success result whenever the two random field
\* elements have non-zero sum and product and the two random scalars are
\* non-zero and do not sum to a multiple of the group order; it answers
\* "Point operations failed" only when the sum of the two random points is
\* the identity.
C13_SelfTestSucceeds ==
    last.op = "CryptoModule.self_test" =>
        /\ SelfTestShouldPass(last.args[1], last.args[2], last.args[3], last.args[4]) =>
            (last.ok /\ last.out.status = "success")
        /\ (~last.ok /\ last.out = "Point operations failed") =>
            IsG1Identity(G1Point_add(G1Point_random(last.args[3]),
                                     G1Point_random(last.args[4])))

====
